---- MODULE Spec2Model ----
(***************************************************************************)
(* Examples/SecRandomCopyBytes.py: get_random_bytes(n) asks the platform   *)
(* primitive SecRandomCopyBytes for n random bytes through ctypes, and the *)
(* module body prints get_random_bytes(8) in hexadecimal.                  *)
(*                                                                         *)
(* Two specifications share the model of the function:                     *)
(*   Spec      the program: the module body, lines 11-12;                  *)
(*   CallSpec  get_random_bytes called by two concurrent callers with      *)
(*             arguments from NValues.                                     *)
(*                                                                         *)
(* An optional value (Python's None, an unbound local, no exception) is a  *)
(* sequence of length 0 or 1: <<>> or <<v>>.                               *)
(***************************************************************************)
EXTENDS Integers, Sequences, FiniteSets, TLC

VARIABLES
  env,          \* the interpreter/platform the code runs in (fixed for a run)
  pc,           \* per invocation: position in get_random_bytes
  n,            \* per invocation: the argument n
  buf,          \* per invocation: local buf, a reference to a heap object
  result,       \* per invocation: local result, the status returned
  ret,          \* per invocation: the value returned to the caller
  err,          \* per invocation: the exception raised to the caller
  heap,         \* the ctypes arrays allocated so far, by object identity
  calls,        \* history: per invocation, the platform calls made (arguments)
  written,      \* history: per invocation, the buffer as the platform left it
  loads,        \* history: per invocation, evaluations of the library lookup
  entered,      \* history: per invocation, entries into get_random_bytes
  mainpc,       \* the module body's position
  random_bytes, \* the module-level variable of line 11
  stdout,       \* the lines printed
  stderr        \* the uncaught exception reported at exit

vars == <<env, pc, n, buf, result, ret, err, heap, calls, written, loads,
          entered, mainpc, random_bytes, stdout, stderr>>

fnvars == <<pc, n, buf, result, ret, err, heap, calls, written, loads, entered>>
mainvars == <<mainpc, random_bytes, stdout, stderr>>

----------------------------------------------------------------------------
(* Bounds and input domains *)

\* largest n the concurrent callers pass
MaxN == 2

\* the platform returns a status in -MaxStatus..MaxStatus
MaxStatus == 1

\* the argument of line 11
RequestedBytes == 8

\* the callers; the module body runs as caller 1
Invocations == {1, 2}

MainInvocation == 1

NValues == -1..MaxN

Statuses == -MaxStatus..MaxStatus

\* 0x07, 0xab, 0xf0: a leading zero, two letters, unequal nibbles
ByteValues == {7, 171, 240}

None == <<>>

Some(v) == <<v>>

----------------------------------------------------------------------------
(* Pure parts of the code *)

\* line 5: ctypes.c_ubyte * n raises ValueError for a negative length
ArrayLengthAny(len) == TRUE

ArrayLengthValid(len) == len >= 0

\* line 5: (ctypes.c_ubyte * n)() is a new array of n zero bytes
NewBufferOneMore(len) == [i \in 1..(len + 1) |-> 0]

NewBuffer(len) == [i \in 1..len |-> 0]

\* line 5: the array is a new object; objects are named by their allocator
NewAddressShared(p) == MainInvocation

NewAddress(p) == p

\* line 6: the arguments of SecRandomCopyBytes(None, n, buf)
CallArgumentsShort(p) == [rnd |-> None, count |-> n[p] - 1, bytes |-> buf[p]]

CallArguments(p) == [rnd |-> None, count |-> n[p], bytes |-> buf[p]]

\* line 7: result != 0
StatusIsFailureNegative(status) == status < 0

StatusIsFailurePositive(status) == status > 0

StatusIsFailureZero(status) == status = 0

StatusIsFailure(status) == status # 0

\* line 8: ValueError("Failed to generate random bytes")
GenerationError == [type |-> "ValueError", msg |-> "Failed to generate random bytes"]

\* line 5: the exception of ctypes for a negative array length
LengthError == [type |-> "ValueError", msg |-> "Array length must be >= 0"]

\* line 6: ctypes.util is not bound, or the symbol is not found
LookupError == [type |-> "AttributeError", msg |-> "lookup"]

RECURSIVE Reverse(_)
Reverse(s) == IF s = <<>> THEN <<>> ELSE Reverse(Tail(s)) \o <<Head(s)>>

\* line 9: bytes(buf) copies the array's elements, each a c_ubyte
ToBytesReversed(array) == Reverse([i \in 1..Len(array) |-> array[i] % 256])

ToBytes(array) == [i \in 1..Len(array) |-> array[i] % 256]

HexDigits == <<"0", "1", "2", "3", "4", "5", "6", "7",
               "8", "9", "a", "b", "c", "d", "e", "f">>

\* line 12: bytes.hex(): two lowercase digits per byte, high nibble first
RECURSIVE HexOf(_)
HexOf(b) ==
  IF b = <<>> THEN <<>>
  ELSE <<HexDigits[(Head(b) \div 16) + 1], HexDigits[(Head(b) % 16) + 1]>>
         \o HexOf(Tail(b))

RECURSIVE HexLowFirstOf(_)
HexLowFirstOf(b) ==
  IF b = <<>> THEN <<>>
  ELSE <<HexDigits[(Head(b) % 16) + 1], HexDigits[(Head(b) \div 16) + 1]>>
         \o HexLowFirstOf(Tail(b))

HexLowFirst(b) == HexLowFirstOf(b)

Hex(b) == HexOf(b)

Label == "Random 64-bit number: "

\* line 12: print(a, b) writes str(a), a space, str(b) and a newline
PrintedLine(b) == <<Label, " ">> \o Hex(b)

----------------------------------------------------------------------------
(* The platform primitive, as the code uses it: it fills the buffer it is  *)
(* given and returns a status.  On status 0 all count bytes are written;   *)
(* on another status any prefix may have been.                             *)

Fills(len) == [1..len -> ByteValues]

Filled(old, fill, upto) ==
  [i \in 1..Len(old) |-> IF i <= upto /\ i <= Len(fill) THEN fill[i] ELSE old[i]]

PlatformOutcomes(old, count) ==
  LET len == IF count < 0 THEN 0 ELSE IF count > Len(old) THEN Len(old) ELSE count
  IN  {[status |-> s, bytes |-> Filled(old, f, k)] :
         s \in {0}, f \in Fills(len), k \in {len}}
      \cup
      {[status |-> s, bytes |-> Filled(old, f, k)] :
         s \in Statuses \ {0}, f \in Fills(len), k \in 0..len}

----------------------------------------------------------------------------
(* State *)

Init ==
  /\ env \in [utilBound : BOOLEAN, primitiveFound : BOOLEAN]
  /\ pc = [p \in Invocations |-> "idle"]
  /\ n = [p \in Invocations |-> 0]
  /\ buf = [p \in Invocations |-> None]
  /\ result = [p \in Invocations |-> None]
  /\ ret = [p \in Invocations |-> None]
  /\ err = [p \in Invocations |-> None]
  /\ heap = [a \in Invocations |-> None]
  /\ calls = [p \in Invocations |-> <<>>]
  /\ written = [p \in Invocations |-> None]
  /\ loads = [p \in Invocations |-> 0]
  /\ entered = [p \in Invocations |-> 0]
  /\ mainpc = "line11"
  /\ random_bytes = None
  /\ stdout = <<>>
  /\ stderr = None

----------------------------------------------------------------------------
(* get_random_bytes, lines 4-9 *)

\* line 4: the function is entered with argument k
Enter(p, k) ==
  /\ pc[p] = "idle"
  /\ pc' = [pc EXCEPT ![p] = "line5"]
  /\ n' = [n EXCEPT ![p] = k]
  /\ entered' = [entered EXCEPT ![p] = @ + 1]
  /\ UNCHANGED <<env, buf, result, ret, err, heap, calls, written, loads>>

\* line 5: buf = (ctypes.c_ubyte * n)()
Allocate(p) ==
  /\ pc[p] = "line5"
  /\ IF ArrayLengthValid(n[p])
       THEN /\ buf' = [buf EXCEPT ![p] = Some(NewAddress(p))]
            /\ heap' = [heap EXCEPT ![NewAddress(p)] = Some(NewBuffer(n[p]))]
            /\ pc' = [pc EXCEPT ![p] = "line6"]
            /\ err' = err
       ELSE /\ err' = [err EXCEPT ![p] = Some(LengthError)]
            /\ pc' = [pc EXCEPT ![p] = "raised"]
            /\ UNCHANGED <<buf, heap>>
  /\ UNCHANGED <<env, n, result, ret, calls, written, loads, entered, mainvars>>

\* line 6: ctypes.cdll.LoadLibrary(ctypes.util.find_library("Security"))
\*         .SecRandomCopyBytes is looked up; line 1 imports ctypes alone
LoadLibrary(p) ==
  /\ pc[p] = "line6"
  /\ loads' = [loads EXCEPT ![p] = @ + 1]
  /\ IF env.utilBound /\ env.primitiveFound
       THEN /\ pc' = [pc EXCEPT ![p] = "line6call"]
            /\ err' = err
       ELSE /\ err' = [err EXCEPT ![p] = Some(LookupError)]
            /\ pc' = [pc EXCEPT ![p] = "raised"]
  /\ UNCHANGED <<env, n, buf, result, ret, heap, calls, written, entered, mainvars>>

\* line 6: result = SecRandomCopyBytes(None, n, buf)
Invoke(p) ==
  /\ pc[p] = "line6call"
  /\ LET args == CallArguments(p)
         addr == args.bytes[1]
     IN  \E o \in PlatformOutcomes(heap[addr][1], args.count) :
           /\ heap' = [heap EXCEPT ![addr] = Some(o.bytes)]
           /\ result' = [result EXCEPT ![p] = Some(o.status)]
           /\ written' = [written EXCEPT ![p] = Some(o.bytes)]
           /\ calls' = [calls EXCEPT ![p] = Append(@, args)]
  /\ pc' = [pc EXCEPT ![p] = "line7"]
  /\ UNCHANGED <<env, n, buf, ret, err, loads, entered, mainvars>>

\* lines 7-8: if result != 0: raise ValueError(...)
CheckResult(p) ==
  /\ pc[p] = "line7"
  /\ IF StatusIsFailure(result[p][1])
       THEN /\ err' = [err EXCEPT ![p] = Some(GenerationError)]
            /\ pc' = [pc EXCEPT ![p] = "raised"]
       ELSE /\ pc' = [pc EXCEPT ![p] = "line9"]
            /\ err' = err
  /\ UNCHANGED <<env, n, buf, result, ret, heap, calls, written, loads, entered,
                 mainvars>>

\* line 9: return bytes(buf)
ReturnBytes(p) ==
  /\ pc[p] = "line9"
  /\ ret' = [ret EXCEPT ![p] = Some(ToBytes(heap[buf[p][1]][1]))]
  /\ pc' = [pc EXCEPT ![p] = "returned"]
  /\ UNCHANGED <<env, n, buf, result, err, heap, calls, written, loads, entered,
                 mainvars>>

Step(p) ==
  \/ Allocate(p)
  \/ LoadLibrary(p)
  \/ Invoke(p)
  \/ CheckResult(p)
  \/ ReturnBytes(p)

----------------------------------------------------------------------------
(* The module body, lines 11-12 *)

\* line 11: get_random_bytes(8) is called
Line11Call ==
  /\ mainpc = "line11"
  /\ Enter(MainInvocation, RequestedBytes)
  /\ mainpc' = "line11call"
  /\ UNCHANGED <<random_bytes, stdout, stderr>>

\* line 11: random_bytes = the value returned
Line11Assign ==
  /\ mainpc = "line11call"
  /\ pc[MainInvocation] = "returned"
  /\ random_bytes' = ret[MainInvocation]
  /\ mainpc' = "line12"
  /\ UNCHANGED <<env, fnvars, stdout, stderr>>

\* line 11: the exception is not caught; the interpreter reports it and exits
Uncaught ==
  /\ mainpc = "line11call"
  /\ pc[MainInvocation] = "raised"
  /\ stderr' = err[MainInvocation]
  /\ mainpc' = "aborted"
  /\ UNCHANGED <<env, fnvars, random_bytes, stdout>>

\* line 12: print("Random 64-bit number: ", random_bytes.hex())
Line12Print ==
  /\ mainpc = "line12"
  /\ stdout' = Append(stdout, PrintedLine(random_bytes[1]))
  /\ mainpc' = "exited"
  /\ UNCHANGED <<env, fnvars, random_bytes, stderr>>

Next ==
  \/ Line11Call
  \/ \E p \in Invocations : Step(p)
  \/ Line11Assign
  \/ Uncaught
  \/ Line12Print

Spec == Init /\ [][Next]_vars

----------------------------------------------------------------------------
(* get_random_bytes called directly by concurrent callers *)

Call(p, k) ==
  /\ Enter(p, k)
  /\ UNCHANGED mainvars

CallNext ==
  \/ \E p \in Invocations : \E k \in NValues : Call(p, k)
  \/ \E p \in Invocations : Step(p)

CallSpec == Init /\ [][CallNext]_vars

----------------------------------------------------------------------------
(* Properties *)

Terminal == {"returned", "raised"}

\* the platform call of invocation p has returned status s
Returned(p, s) == result[p] = Some(s)

\* the platform call of invocation p has returned a non-zero status
Failed(p) == result[p] # None /\ result[p][1] # 0

LowerHex == {HexDigits[i] : i \in 1..16}

HexValue(c) == CHOOSE v \in 0..15 : HexDigits[v + 1] = c

\* C1: for n >= 0 and a platform call that returned status 0, the call
\* returns a byte sequence, and its length is exactly n.
C1_LengthIsN ==
  \A p \in Invocations :
    (n[p] >= 0 /\ Returned(p, 0) /\ pc[p] \in Terminal)
      => /\ pc[p] = "returned"
         /\ ret[p] # None
         /\ Len(ret[p][1]) = n[p]

C1_Witness ==
  \E p \in Invocations :
    pc[p] = "returned" /\ n[p] = MaxN /\ Len(ret[p][1]) = MaxN

\* C2: after a non-zero status no buffer is ever returned, and the call ends
\* by raising the one generation error, the same for every non-zero status.
C2_FailureRaises ==
  \A p \in Invocations :
    Failed(p)
      => /\ ret[p] = None
         /\ pc[p] \in {"line7", "raised"}
         /\ pc[p] = "raised" => err[p] = Some(GenerationError)

C2_Witness ==
  \E p \in Invocations : \E q \in Invocations :
    /\ pc[p] = "raised" /\ pc[q] = "raised"
    /\ Failed(p) /\ Failed(q)
    /\ result[p] # result[q]
    /\ n[p] > 0
    /\ written[p] # Some(NewBuffer(n[p]))

\* C3: a returned buffer holds exactly the bytes the platform wrote, in the
\* same order, and a buffer is returned for status 0 only.
C3_ReturnsWhatWasWritten ==
  \A p \in Invocations :
    /\ ret[p] # None => Returned(p, 0) /\ ret[p] = written[p]
    /\ (Returned(p, 0) /\ pc[p] \in Terminal) => ret[p] # None

C3_Witness ==
  \E p \in Invocations :
    /\ pc[p] = "returned"
    /\ Len(ret[p][1]) >= 2
    /\ ret[p][1][1] # ret[p][1][2]

\* C4: get_random_bytes(0) with status 0 returns without error the empty
\* byte sequence, whose hexadecimal encoding is empty.
C4_ZeroBytes ==
  \A p \in Invocations :
    (n[p] = 0 /\ Returned(p, 0) /\ pc[p] \in Terminal)
      => /\ pc[p] = "returned"
         /\ err[p] = None
         /\ ret[p] = Some(<<>>)
         /\ Hex(ret[p][1]) = <<>>

C4_Witness ==
  \E p \in Invocations :
    pc[p] = "returned" /\ n[p] = 0 /\ Len(calls[p]) = 1

\* C5: a run that exits normally has called get_random_bytes once, with
\* n = 8, and has printed one line: the label, then 16 lowercase hexadecimal
\* digits, two per returned byte in buffer order, high nibble first.  Nothing
\* is printed before that.
C5_PrintsSixteenDigits ==
  /\ mainpc # "exited" => stdout = <<>>
  /\ mainpc = "exited" =>
       /\ entered = [p \in Invocations |-> IF p = MainInvocation THEN 1 ELSE 0]
       /\ n[MainInvocation] = RequestedBytes
       /\ Len(stdout) = 1
       /\ LET line == stdout[1]
              digits == SubSeq(line, 3, Len(line))
              bytes == written[MainInvocation][1]
          IN  /\ line[1] = Label
              /\ line[2] = " "
              /\ Len(digits) = 2 * RequestedBytes
              /\ \A i \in 1..Len(digits) : digits[i] \in LowerHex
              /\ ret[MainInvocation] = Some(bytes)
              /\ Len(bytes) = RequestedBytes
              /\ \A i \in 1..Len(bytes) :
                   16 * HexValue(digits[2 * i - 1]) + HexValue(digits[2 * i])
                     = bytes[i]

C5_Witness ==
  /\ mainpc = "exited"
  /\ Len(stdout) = 1
  /\ random_bytes = Some(<<7, 171, 240, 7, 7, 240, 171, 171>>)

\* C6: once the program's platform call has returned a non-zero status,
\* nothing is ever printed, the print step is never reached, and the run goes
\* on until it has ended aborted with the generation error reported.
C6_FailureAborts ==
  Failed(MainInvocation)
    => /\ stdout = <<>>
       /\ mainpc \notin {"line12", "exited"}
       /\ mainpc = "aborted" => stderr = Some(GenerationError)
       /\ mainpc = "aborted" \/ ENABLED Next

C6_Witness ==
  /\ Failed(MainInvocation)
  /\ mainpc = "aborted"
  /\ stdout = <<>>
  /\ written[MainInvocation] # Some(NewBuffer(RequestedBytes))

\* C7: every call with n >= 0 makes exactly one platform call and ends in
\* one of two outcomes: the buffer returned, or the generation error raised.
C7_ExactlyOneInvocation ==
  \A p \in Invocations :
    /\ Len(calls[p]) <= 1
    /\ (n[p] >= 0 /\ pc[p] \in Terminal)
         => /\ Len(calls[p]) = 1
            /\ \/ pc[p] = "returned" /\ ret[p] # None
               \/ pc[p] = "raised" /\ err[p] = Some(GenerationError)

\* C8: every platform call is made with a null first argument, the count n,
\* and the buffer this call allocated, of length n, no other call's buffer.
C8_CallArguments ==
  \A p \in Invocations :
    \A i \in 1..Len(calls[p]) :
      LET c == calls[p][i]
      IN  /\ c.rnd = None
          /\ c.count = n[p]
          /\ c.bytes # None
          /\ c.bytes = buf[p]
          /\ Len(heap[c.bytes[1]][1]) = n[p]
          /\ \A q \in Invocations \ {p} : buf[q] # c.bytes

C8_Witness ==
  \E p \in Invocations :
    /\ Len(calls[p]) = 1
    /\ n[p] = MaxN
    /\ \A q \in Invocations : buf[q] # None

\* the outcome of invocation p is decided by its own status and bytes
OwnOutcome(p) ==
  /\ written[p] # None => heap[buf[p][1]] = written[p]
  /\ (pc[p] \in Terminal /\ calls[p] # <<>>) =>
       IF result[p] = Some(0)
         THEN pc[p] = "returned" /\ ret[p] = written[p] /\ err[p] = None
         ELSE pc[p] = "raised" /\ ret[p] = None /\ err[p] = Some(GenerationError)

\* a buffer changes only in a step of the one invocation that owns it
OwnerWrites ==
  \A a \in DOMAIN heap :
    heap'[a] # heap[a] =>
      \E p \in Invocations :
        /\ pc'[p] # pc[p]
        /\ pc[p] \in {"line5", "line6call"}
        /\ buf'[p] = Some(a)
        /\ \A q \in Invocations \ {p} : buf[q] # Some(a)

\* C9: under every interleaving of two invocations each one's result depends
\* on the status and bytes of its own platform call only, and no invocation
\* writes the buffer of another.
C9_Independent ==
  /\ [](\A p \in Invocations : OwnOutcome(p))
  /\ [][OwnerWrites]_vars

C9_Witness ==
  \E p \in Invocations : \E q \in Invocations :
    /\ pc[p] = "raised" /\ Failed(p) /\ n[p] > 0
    /\ pc[q] = "returned" /\ n[q] = n[p]
    /\ written[p] # written[q]
    /\ heap[buf[p][1]] # heap[buf[q][1]]

\* C10: a call with n < 0 raises at the allocation of line 5: the library is
\* not looked up, the platform is not called and nothing is returned.
C10_NegativeLength ==
  \A p \in Invocations :
    n[p] < 0
      => /\ pc[p] \in {"line5", "raised"}
         /\ pc[p] = "raised" => err[p] = Some(LengthError)
         /\ loads[p] = 0
         /\ calls[p] = <<>>
         /\ buf[p] = None
         /\ ret[p] = None

C10_Witness ==
  \E p \in Invocations :
    n[p] = -1 /\ pc[p] = "raised" /\ err[p] = Some(LengthError)

====
